---- MODULE Spec2Model ----
(***************************************************************************)
(* Model of the opportunity scanner of omniscient-one/app.py:              *)
(*   LiveDataEngine.get_market_data          (provider fallback chain)     *)
(*   LiveDataEngine.get_real_time_quote                                    *)
(*   AbsoluteBestScanner.scan_best_opportunities and its helpers           *)
(* and of the session handling of omniscient-one/src/auth.py:              *)
(*   AuthManager.authenticate_user, AuthManager.logout                     *)
(*                                                                         *)
(* Numbers.  Prices are integers counted in hundredths of a cent (1000000  *)
(* is $100.00), so that rounding to 2 decimals is visible; the levels of a *)
(* trade plan are in cents.  Volumes are integers.  A score is the exact   *)
(* rational [n, d] (n/d, d > 0) of the value the code computes in floating *)
(* point; comparisons are made by cross-multiplication.                    *)
(***************************************************************************)
EXTENDS Integers, Sequences, FiniteSets, TLC

VARIABLES
    priority_tickers,   \* AbsoluteBestScanner.priority_tickers
    max_results,        \* argument of scan_best_opportunities
    pc,                 \* position of the scan: "loop" | "done" ("idle": no scan)
    i,                  \* index (1-based) of the next ticker of the slice
    results,            \* local list `results` of the scan
    returned,           \* the list handed back to the caller
    raised,             \* exception surfaced to the caller ("none" if none)
    fetched,            \* history: tickers passed to data_engine.get_market_data
    responses,          \* history: [ticker, kind, data] of every fetch that
                        \*   raised or answered with a non-empty frame
    boto3_available,    \* LiveDataEngine.boto3_available
    de_ticker,          \* argument of get_market_data
    de_pc,              \* position of get_market_data: "s3" | "yahoo" | "done"
                        \*   ("idle": no call)
    consulted,          \* history: <<provider, outcome>> of every provider asked
    de_returned,        \* what get_market_data handed back ("pending" before)
    q_ticker,           \* argument of get_real_time_quote
    q_pc,               \* position of get_real_time_quote: "live" | "done"
                        \*   ("idle": no call)
    q_live,             \* history: what the live provider did ("pending" before)
    q_returned,         \* the quote handed back ("pending" before)
    q_raised,           \* exception surfaced by get_real_time_quote
    sc_data,            \* the frame handed to the scoring functions
    sc_pc,              \* "score" | "analyze" | "plan" | "done" | "raised" |
                        \*   "scanned" ("idle": no call)
    sc_scores,          \* results of the three _calculate_* functions
    sc_analysis,        \* result of _analyze_stock
    sc_plan,            \* result of _generate_trade_plan
    sc_results,         \* `results` of a scan after this one ticker
    scans,              \* two invocations of scan_best_opportunities on one
                        \*   scanner: the locals of each
    ss_user,            \* st.session_state.user ("None" when None)
    ss_authenticated,   \* st.session_state.authenticated
    ss_token,           \* st.session_state.token (0 when None)
    last_login,         \* users.last_login of the database, per user
    tokens_issued,      \* number of tokens create_token has made
    auth_result         \* what the last call of the AuthManager returned

scanVars == <<priority_tickers, max_results, pc, i, results, returned, raised,
              fetched, responses>>
dataVars == <<boto3_available, de_ticker, de_pc, consulted, de_returned>>
quoteVars == <<q_ticker, q_pc, q_live, q_returned, q_raised>>
scoreVars == <<sc_data, sc_pc, sc_scores, sc_analysis, sc_plan, sc_results>>
twinVars == <<scans>>
authVars == <<ss_user, ss_authenticated, ss_token, last_login, tokens_issued,
              auth_result>>
vars == <<priority_tickers, max_results, pc, i, results, returned, raised,
          fetched, responses, boto3_available, de_ticker, de_pc, consulted,
          de_returned, q_ticker, q_pc, q_live, q_returned, q_raised,
          sc_data, sc_pc, sc_scores, sc_analysis, sc_plan, sc_results,
          scans, ss_user, ss_authenticated, ss_token, last_login,
          tokens_issued, auth_result>>

----------------------------------------------------------------------------
(* Program constants *)

PriorityWatchlist ==
    << "NVDA", "AAPL", "MSFT", "GOOGL", "AMZN", "META", "TSLA",
       "AMD", "AVGO", "TSM", "INTC", "QCOM", "COIN", "PLTR",
       "SNOW", "CRWD", "NET", "DDOG", "SQ", "SHOP", "UBER" >>

ScanCap == 15
InclusionThreshold == 75
VeryHighThreshold == 85
HighThreshold == 75
SyntheticPeriods == 30

----------------------------------------------------------------------------
(* Arithmetic helpers *)

Min(a, b) == IF a <= b THEN a ELSE b
Max(a, b) == IF a >= b THEN a ELSE b
Abs(x) == IF x < 0 THEN -x ELSE x

RECURSIVE SumTo(_, _)
SumTo(s, k) == IF k = 0 THEN 0 ELSE s[k] + SumTo(s, k - 1)
Sum(s) == SumTo(s, Len(s))

\* series.iloc[-k]
ILoc(s, k) == s[Len(s) - k + 1]

\* series.iloc[-k:] (the whole series when it is shorter than k)
LastN(s, k) == SubSeq(s, Max(1, Len(s) - k + 1), Len(s))

RECURSIVE GCD(_, _)
GCD(a, b) == IF b = 0 THEN a ELSE GCD(b, a % b)

\* rationals n/d with d > 0, in lowest terms
Rat(n, d) == LET g == GCD(Abs(n), d) IN [n |-> n \div g, d |-> d \div g]
RatGE(a, b) == a.n * b.d >= b.n * a.d
RatGT(a, b) == a.n * b.d > b.n * a.d
RatEQ(a, b) == a.n * b.d = b.n * a.d

\* round(n/d) to the nearest integer, ties to even (Python's round), n >= 0, d > 0
RoundHalfEven(n, d) ==
    LET q == n \div d
        r == n % d
    IN  IF 2 * r < d THEN q
        ELSE IF 2 * r > d THEN q + 1
        ELSE IF q % 2 = 0 THEN q ELSE q + 1

----------------------------------------------------------------------------
(* Data frames: len rows, a set of column names, the Close and Volume      *)
(* columns (<<>> when the column is absent).                               *)

Frame(cols, close, volume) ==
    [len |-> Max(Len(close), Len(volume)), columns |-> cols,
     Close |-> close, Volume |-> volume]

EmptyFrame == [len |-> 0, columns |-> {"Close", "Volume"},
               Close |-> <<>>, Volume |-> <<>>]

\* DataFrame.empty
IsEmpty(data) == data.len = 0 \/ data.columns = {}

Const(n, v) == [k \in 1..n |-> v]

\* n bars: flat at `base`, then close[-5] = c5, three bars at `prev`, then
\* `last`; volume vOld, then vNew on the last five bars.
Bars(n, base, c5, prev, last, vOld, vNew) ==
    Frame({"Close", "Volume"},
          Const(n - 5, base) \o <<c5>> \o Const(3, prev) \o <<last>>,
          Const(n - 5, vOld) \o Const(5, vNew))

----------------------------------------------------------------------------
(* Scoring: AbsoluteBestScanner._calculate_momentum / _volume / _trend     *)

\* variant: the change is measured from close[-6]
calculate_momentum_six_back(data) ==
    IF data.len < 10 THEN Rat(50, 1)
    ELSE LET a == ILoc(data.Close, 1)
             b == ILoc(data.Close, 6)
         IN  IF b = 0 THEN Rat(100, 1)
             ELSE LET n == 50 * b + 200 * (a - b)
                  IN  IF n > 100 * b THEN Rat(100, 1)
                      ELSE IF n < 0 THEN Rat(0, 1)
                      ELSE Rat(n, b)

\* variant: the result is not clamped to [0, 100]
calculate_momentum_unclamped(data) ==
    IF data.len < 10 THEN Rat(50, 1)
    ELSE LET a == ILoc(data.Close, 1)
             b == ILoc(data.Close, 5)
         IN  IF b = 0 THEN Rat(100, 1)
             ELSE Rat(50 * b + 200 * (a - b), b)

\* max(0, min(100, 50 + recent_change * 2)) with
\* recent_change = (close[-1] - close[-5]) / close[-5] * 100.
\* close[-5] = 0 divides by zero in numpy: +inf or nan, and
\* max(0, min(100, x)) is 100 for both.
calculate_momentum(data) ==
    IF data.len < 10 THEN Rat(50, 1)
    ELSE LET a == ILoc(data.Close, 1)
             b == ILoc(data.Close, 5)
         IN  IF b = 0 THEN Rat(100, 1)
             ELSE LET n == 50 * b + 200 * (a - b)
                  IN  IF n > 100 * b THEN Rat(100, 1)
                      ELSE IF n < 0 THEN Rat(0, 1)
                      ELSE Rat(n, b)

\* variant: the longer window is whatever exists of the last 20 bars
calculate_volume_short_window(data) ==
    IF data.len < 10 \/ "Volume" \notin data.columns THEN 50
    ELSE LET recentWin == LastN(data.Volume, 5)
             avgWin == LastN(data.Volume, 20)
             r == Sum(recentWin) * Len(avgWin)
             a == Sum(avgWin) * Len(recentWin)
         IN  IF Sum(avgWin) = 0 THEN 50
             ELSE IF r > 2 * a THEN 90
             ELSE IF 2 * r > 3 * a THEN 75
             ELSE IF r > a THEN 60
             ELSE 40

\* variant: the bands are closed at their lower ends
calculate_volume_closed_bands(data) ==
    IF data.len < 10 \/ "Volume" \notin data.columns THEN 50
    ELSE LET recentWin == LastN(data.Volume, 5)
             avgWin == IF data.len >= 20 THEN LastN(data.Volume, 20) ELSE recentWin
             r == Sum(recentWin) * Len(avgWin)
             a == Sum(avgWin) * Len(recentWin)
         IN  IF Sum(avgWin) = 0 THEN 50
             ELSE IF r >= 2 * a THEN 90
             ELSE IF 2 * r >= 3 * a THEN 75
             ELSE IF r >= a THEN 60
             ELSE 40

\* recent_volume / avg_volume compared with 2, 1.5 and 1; the means are
\* sums over 5 and over Len(avgWin) bars.
calculate_volume(data) ==
    IF data.len < 10 \/ "Volume" \notin data.columns THEN 50
    ELSE LET recentWin == LastN(data.Volume, 5)
             avgWin == IF data.len >= 20 THEN LastN(data.Volume, 20) ELSE recentWin
             r == Sum(recentWin) * Len(avgWin)    \* ratio = r / a
             a == Sum(avgWin) * Len(recentWin)
         IN  IF Sum(avgWin) = 0 THEN 50
             ELSE IF r > 2 * a THEN 90
             ELSE IF 2 * r > 3 * a THEN 75
             ELSE IF r > a THEN 60
             ELSE 40

\* variant: the orderings are not strict
calculate_trend_non_strict(data) ==
    IF data.len < 20 THEN 50
    ELSE LET last == ILoc(data.Close, 1)
             s10 == Sum(LastN(data.Close, 10))
             s20 == Sum(LastN(data.Close, 20))
         IN  IF 10 * last >= s10 /\ 2 * s10 >= s20 THEN 85
             ELSE IF 10 * last <= s10 /\ 2 * s10 <= s20 THEN 15
             ELSE 50

\* variant: the trend is computed from 10 bars on
calculate_trend_from_ten_bars(data) ==
    IF data.len < 10 THEN 50
    ELSE LET last == ILoc(data.Close, 1)
             s10 == Sum(LastN(data.Close, 10))
             s20 == Sum(LastN(data.Close, 20))
         IN  IF 10 * last > s10 /\ 2 * s10 > s20 THEN 85
             ELSE IF 10 * last < s10 /\ 2 * s10 < s20 THEN 15
             ELSE 50

calculate_trend(data) ==
    IF data.len < 20 THEN 50
    ELSE LET last == ILoc(data.Close, 1)
             s10 == Sum(LastN(data.Close, 10))    \* ma_short = s10 / 10
             s20 == Sum(LastN(data.Close, 20))    \* ma_long  = s20 / 20
         IN  IF 10 * last > s10 /\ 2 * s10 > s20 THEN 85
             ELSE IF 10 * last < s10 /\ 2 * s10 < s20 THEN 15
             ELSE 50

\* variant: momentum * 0.5 + volume * 0.3 + trend * 0.2
total_score_momentum_heavy(m, v, t) ==
    Rat(5 * m.n + (3 * v + 2 * t) * m.d, 10 * m.d)

\* variant: momentum * 0.3 + volume * 0.4 + trend * 0.3
total_score_volume_heavy(m, v, t) ==
    Rat(3 * m.n + (4 * v + 3 * t) * m.d, 10 * m.d)

\* momentum * 0.4 + volume * 0.3 + trend * 0.3
total_score(m, v, t) == Rat(4 * m.n + 3 * (v + t) * m.d, 10 * m.d)

\* variant: iloc[-2] is read whatever the length (IndexError on 1 bar)
AnalysisRaisesOnSingleBar(data) ==
    \/ "Close" \notin data.columns /\ (data.len >= 10 \/ data.len >= 2)
    \/ data.len = 1

\* data['Close'] is read (and raises KeyError when the column is absent) by
\* _calculate_momentum from 10 rows on and by the trend label from 2 rows on.
AnalysisRaises(data) ==
    "Close" \notin data.columns /\ (data.len >= 10 \/ data.len >= 2)

\* variant: an unchanged close is BULLISH
analyze_stock_flat_is_bullish(ticker, data) ==
    IF IsEmpty(data) THEN [ticker |-> ticker, score |-> Rat(0, 1)]
    ELSE LET momentum_score == calculate_momentum(data)
             volume_score == calculate_volume(data)
             trend_score == calculate_trend(data)
             last == ILoc(data.Close, 1)
             prev == ILoc(data.Close, 2)
         IN  [ticker |-> ticker,
              price |-> IF "Close" \in data.columns THEN last ELSE 1000000,
              price_change |-> IF data.len >= 2
                               THEN [n |-> 100 * (last - prev), d |-> prev]
                               ELSE [n |-> 0, d |-> 1],
              trend |-> IF data.len >= 2
                        THEN (IF last >= prev THEN "BULLISH" ELSE "BEARISH")
                        ELSE "NEUTRAL",
              score |-> total_score(momentum_score, volume_score, trend_score),
              momentum_score |-> momentum_score,
              volume_score |-> volume_score,
              trend_score |-> trend_score]

\* _analyze_stock, for a frame on which it does not raise
analyze_stock(ticker, data) ==
    IF IsEmpty(data) THEN [ticker |-> ticker, score |-> Rat(0, 1)]
    ELSE LET current_price ==
                 IF "Close" \in data.columns THEN ILoc(data.Close, 1) ELSE 1000000
             momentum_score == calculate_momentum(data)
             volume_score == calculate_volume(data)
             trend_score == calculate_trend(data)
             last == ILoc(data.Close, 1)
             prev == ILoc(data.Close, 2)
         IN  [ticker |-> ticker,
              price |-> current_price,
              \* (last - prev) / prev * 100, kept as numerator and denominator
              price_change |-> IF data.len >= 2
                               THEN [n |-> 100 * (last - prev), d |-> prev]
                               ELSE [n |-> 0, d |-> 1],
              trend |-> IF data.len >= 2
                        THEN (IF last > prev THEN "BULLISH" ELSE "BEARISH")
                        ELSE "NEUTRAL",
              score |-> total_score(momentum_score, volume_score, trend_score),
              momentum_score |-> momentum_score,
              volume_score |-> volume_score,
              trend_score |-> trend_score]

----------------------------------------------------------------------------
(* AbsoluteBestScanner._generate_trade_plan.  The price is in hundredths   *)
(* of a cent; entry, stop_loss and target are in cents, risk_reward in     *)
(* hundredths.                                                             *)

\* variant: the stops of LONG and SHORT are exchanged
PlanStopLossExchanged(p, trend) == IF trend = "BULLISH" THEN 107 * p ELSE 93 * p

\* stop_loss and target times 100, before rounding
PlanStopLoss(p, trend) == IF trend = "BULLISH" THEN 93 * p ELSE 107 * p
PlanTarget(p, trend) == IF trend = "BULLISH" THEN 121 * p ELSE 79 * p

\* variant: risk / reward
RiskRewardInverted(entry, stop_loss, target) ==
    LET risk == Abs(entry - stop_loss)
        reward == Abs(target - entry)
    IN  IF reward > 0 THEN RoundHalfEven(100 * risk, reward) ELSE 0

\* round(reward / risk if risk > 0 else 0, 2), in hundredths
RiskReward(entry, stop_loss, target) ==
    LET risk == Abs(entry - stop_loss)
        reward == Abs(target - entry)
    IN  IF risk > 0 THEN RoundHalfEven(100 * reward, risk) ELSE 0

\* variant: the bands are open at their lower ends
ConfidenceLevelStrict(score) ==
    IF RatGT(score, Rat(VeryHighThreshold, 1))
    THEN [confidence |-> "VERY HIGH", position |-> "10-15%"]
    ELSE IF RatGT(score, Rat(HighThreshold, 1))
    THEN [confidence |-> "HIGH", position |-> "7-10%"]
    ELSE [confidence |-> "MODERATE", position |-> "5-7%"]

\* the confidence level and the position size that goes with it
ConfidenceLevel(score) ==
    IF RatGE(score, Rat(VeryHighThreshold, 1))
    THEN [confidence |-> "VERY HIGH", position |-> "10-15%"]
    ELSE IF RatGE(score, Rat(HighThreshold, 1))
    THEN [confidence |-> "HIGH", position |-> "7-10%"]
    ELSE [confidence |-> "MODERATE", position |-> "5-7%"]

generate_trade_plan(analysis) ==
    LET p == analysis.price
        entry == 100 * p
        stop_loss == PlanStopLoss(p, analysis.trend)
        target == PlanTarget(p, analysis.trend)
        level == ConfidenceLevel(analysis.score)
    IN  [direction |-> IF analysis.trend = "BULLISH" THEN "LONG" ELSE "SHORT",
         \* round(x, 2)
         entry |-> RoundHalfEven(entry, 10000),
         stop_loss |-> RoundHalfEven(stop_loss, 10000),
         target |-> RoundHalfEven(target, 10000),
         risk_reward |-> RiskReward(entry, stop_loss, target),
         timeframe |-> "3-10 days",
         position_size |-> level.position,
         confidence |-> level.confidence]

----------------------------------------------------------------------------
(* Inputs of the scan *)

\* The data source raises or answers with a non-empty frame only for the
\* first MaxLive tickers of the list and for the two tickers on either side of
\* the scan cap; for every ticker it may answer None or an empty frame.
MaxLive == 3
LivePositions == (1..MaxLive) \cup {ScanCap, ScanCap + 1}

\* momentum 100, volume 90, trend 85: score 92.5, BULLISH
StrongFrame == Bars(20, 10000, 10000, 11000, 12500, 100, 700)
\* momentum 56.25, volume 90, trend 85: score exactly 75, BEARISH
BoundaryFrame == Bars(20, 9600, 9600, 10000, 9900, 100, 700)
\* momentum 56, volume 90, trend 85: score 74.9
NearMissFrame == Bars(20, 10000, 10000, 10100, 10300, 100, 700)
\* no Close column: _analyze_stock raises KeyError
NoCloseFrame == Frame({"Volume"}, <<>>, Const(20, 100))

ScanFrames == {StrongFrame, BoundaryFrame, NearMissFrame, NoCloseFrame}

Universes == {PriorityWatchlist, <<>>}
\* 5 is the default of the parameter
MaxResultsInputs == {-1, 0, 1, 2, 5}

----------------------------------------------------------------------------
(* AbsoluteBestScanner.scan_best_opportunities *)

\* variant: the slice is forgotten and the whole list is scanned
ScanSliceNoCap(tickers) == tickers

\* self.priority_tickers[:15]
ScanSlice(tickers) == SubSeq(tickers, 1, Min(ScanCap, Len(tickers)))

\* variant: s[:n - 1]
PySliceOffByOne(s, n) == SubSeq(s, 1, Max(0, Min(n - 1, Len(s))))

\* s[:n], Python slice semantics (a negative n counts from the end)
PySliceTo(s, n) ==
    IF n >= 0 THEN SubSeq(s, 1, Min(n, Len(s)))
    ELSE SubSeq(s, 1, Max(Len(s) + n, 0))

\* variant: a threshold one point too low
QualifiesLooseThreshold(analysis) ==
    RatGE(analysis.score, Rat(InclusionThreshold - 1, 1))

\* analysis['score'] >= 75
Qualifies(analysis) == RatGE(analysis.score, Rat(InclusionThreshold, 1))

\* list.sort(key=score, reverse=True): stable, equal scores keep their order
RECURSIVE InsertDesc(_, _)
InsertDesc(sorted, x) ==
    IF sorted = <<>> THEN <<x>>
    ELSE IF RatGE(Head(sorted).score, x.score)
         THEN <<Head(sorted)>> \o InsertDesc(Tail(sorted), x)
         ELSE <<x>> \o sorted

\* variant: reverse=True forgotten (stable ascending sort)
RECURSIVE InsertAsc(_, _)
InsertAsc(sorted, x) ==
    IF sorted = <<>> THEN <<x>>
    ELSE IF RatGE(x.score, Head(sorted).score)
         THEN <<Head(sorted)>> \o InsertAsc(Tail(sorted), x)
         ELSE <<x>> \o sorted

RECURSIVE SortByScoreAscending(_)
SortByScoreAscending(s) ==
    IF s = <<>> THEN <<>>
    ELSE InsertAsc(SortByScoreAscending(SubSeq(s, 1, Len(s) - 1)), s[Len(s)])

\* variant: sort ascending, then list.reverse(): equal scores end up reversed
SortByScoreReversedTies(s) ==
    LET asc == SortByScoreAscending(s)
    IN  [k \in 1..Len(asc) |-> asc[Len(asc) - k + 1]]

RECURSIVE SortByScoreDesc(_)
SortByScoreDesc(s) ==
    IF s = <<>> THEN <<>>
    ELSE InsertDesc(SortByScoreDesc(SubSeq(s, 1, Len(s) - 1)), s[Len(s)])

\* variant: the plan is attached only to the strongest analyses
LoopBodyPlanForVeryHigh(res, ticker, data) ==
    IF AnalysisRaises(data) THEN res
    ELSE LET analysis == analyze_stock(ticker, data)
         IN  IF ~Qualifies(analysis) THEN res
             ELSE IF RatGE(analysis.score, Rat(VeryHighThreshold, 1))
             THEN Append(res, [trade_plan |-> generate_trade_plan(analysis)]
                                  @@ analysis)
             ELSE Append(res, analysis)

\* body of the loop for a ticker whose fetch answered the non-empty frame
\* `data`: the new value of `results`
LoopBody(res, ticker, data) ==
    IF AnalysisRaises(data) THEN res            \* except Exception: continue
    ELSE LET analysis == analyze_stock(ticker, data)
         IN  IF Qualifies(analysis)
             THEN Append(res, [trade_plan |-> generate_trade_plan(analysis)]
                                  @@ analysis)
             ELSE res

InLoop == pc = "loop" /\ i <= Len(ScanSlice(priority_tickers))
Ticker == ScanSlice(priority_tickers)[i]
MayRespond == i \in LivePositions
Response(ticker, kind, data) == [ticker |-> ticker, kind |-> kind, data |-> data]

\* variant: no try/except around the fetch, the exception leaves the scan
FetchRaisesAborts ==
    /\ InLoop /\ MayRespond
    /\ fetched' = Append(fetched, Ticker)
    /\ responses' = Append(responses, Response(Ticker, "raise", EmptyFrame))
    /\ pc' = "done"
    /\ raised' = "Exception"
    /\ UNCHANGED <<priority_tickers, max_results, i, results, returned>>
    /\ UNCHANGED <<dataVars, quoteVars, scoreVars, twinVars, authVars>>

\* data_engine.get_market_data(ticker) raises: except Exception: continue
FetchRaises ==
    /\ InLoop /\ MayRespond
    /\ fetched' = Append(fetched, Ticker)
    /\ responses' = Append(responses, Response(Ticker, "raise", EmptyFrame))
    /\ i' = i + 1
    /\ UNCHANGED <<priority_tickers, max_results, pc, results, returned, raised>>
    /\ UNCHANGED <<dataVars, quoteVars, scoreVars, twinVars, authVars>>

\* data is None
FetchReturnsNone ==
    /\ InLoop
    /\ fetched' = Append(fetched, Ticker)
    /\ i' = i + 1
    /\ UNCHANGED <<priority_tickers, max_results, pc, results, returned, raised,
                   responses>>
    /\ UNCHANGED <<dataVars, quoteVars, scoreVars, twinVars, authVars>>

\* data.empty
FetchReturnsEmpty ==
    /\ InLoop
    /\ IsEmpty(EmptyFrame)
    /\ fetched' = Append(fetched, Ticker)
    /\ i' = i + 1
    /\ UNCHANGED <<priority_tickers, max_results, pc, results, returned, raised,
                   responses>>
    /\ UNCHANGED <<dataVars, quoteVars, scoreVars, twinVars, authVars>>

FetchReturnsData(data) ==
    /\ InLoop /\ MayRespond
    /\ ~IsEmpty(data)
    /\ fetched' = Append(fetched, Ticker)
    /\ responses' = Append(responses, Response(Ticker, "data", data))
    /\ results' = LoopBody(results, Ticker, data)
    /\ i' = i + 1
    /\ UNCHANGED <<priority_tickers, max_results, pc, returned, raised>>
    /\ UNCHANGED <<dataVars, quoteVars, scoreVars, twinVars, authVars>>

\* variant: an empty `results` is reported as an exception
SortAndReturnRaisesOnEmpty ==
    /\ pc = "loop" /\ i > Len(ScanSlice(priority_tickers))
    /\ results' = SortByScoreDesc(results)
    /\ returned' = PySliceTo(results', max_results)
    /\ raised' = IF results = <<>> THEN "DataUnavailable" ELSE raised
    /\ pc' = "done"
    /\ UNCHANGED <<priority_tickers, max_results, i, fetched, responses>>
    /\ UNCHANGED <<dataVars, quoteVars, scoreVars, twinVars, authVars>>

\* results.sort(key=lambda x: x['score'], reverse=True); return results[:max_results]
SortAndReturn ==
    /\ pc = "loop" /\ i > Len(ScanSlice(priority_tickers))
    /\ results' = SortByScoreDesc(results)
    /\ returned' = PySliceTo(results', max_results)
    /\ pc' = "done"
    /\ UNCHANGED <<priority_tickers, max_results, i, raised, fetched, responses>>
    /\ UNCHANGED <<dataVars, quoteVars, scoreVars, twinVars, authVars>>

ScanIdle ==
    /\ priority_tickers = PriorityWatchlist /\ max_results = 1
    /\ pc = "idle" /\ i = 1
    /\ results = <<>> /\ returned = <<>> /\ raised = "none"
    /\ fetched = <<>> /\ responses = <<>>

DataIdle ==
    /\ boto3_available = FALSE /\ de_ticker = "NVDA" /\ de_pc = "idle"
    /\ consulted = <<>> /\ de_returned = "pending"

QuoteIdle ==
    /\ q_ticker = "NVDA" /\ q_pc = "idle" /\ q_live = "pending"
    /\ q_returned = "pending" /\ q_raised = "none"

ScoreIdle ==
    /\ sc_data = EmptyFrame /\ sc_pc = "idle" /\ sc_scores = "pending"
    /\ sc_analysis = "pending" /\ sc_plan = "pending" /\ sc_results = <<>>

ScanIds == {1, 2}

\* the locals of an invocation that has not started
NotStarted ==
    [pc |-> "idle", max_results |-> 5, i |-> 1, results |-> <<>>,
     returned |-> <<>>, responses |-> <<>>]

TwinIdle == scans = [s \in ScanIds |-> NotStarted]

\* the accounts of the users table: password_hash per username
Users == [alice |-> <<"bcrypt", "pw-alice">>, bob |-> <<"bcrypt", "pw-bob">>]

\* _init_session on a fresh session
AuthIdle ==
    /\ ss_user = "None" /\ ss_authenticated = FALSE /\ ss_token = 0
    /\ last_login = [u \in DOMAIN Users |-> 0]
    /\ tokens_issued = 0 /\ auth_result = "none"

Init ==
    /\ priority_tickers \in Universes
    /\ max_results \in MaxResultsInputs
    /\ pc = "loop" /\ i = 1
    /\ results = <<>> /\ returned = <<>> /\ raised = "none"
    /\ fetched = <<>> /\ responses = <<>>
    /\ DataIdle /\ QuoteIdle /\ ScoreIdle /\ TwinIdle /\ AuthIdle

Next ==
    \/ FetchRaises
    \/ FetchReturnsNone
    \/ FetchReturnsEmpty
    \/ \E data \in ScanFrames : FetchReturnsData(data)
    \/ SortAndReturn

Spec == Init /\ [][Next]_vars

----------------------------------------------------------------------------
(* LiveDataEngine.get_market_data *)

\* the generated series: 30 daily bars, closes and volumes drawn at random
SyntheticBars(c5, prev, last, vOld, vNew) ==
    [Bars(SyntheticPeriods, 1000000, c5, prev, last, vOld, vNew)
        EXCEPT !.columns = {"Open", "High", "Low", "Close", "Volume"}]

SyntheticFrames ==
    {SyntheticBars(c, 1000000, l, 1000000, v) :
        c \in {990000, 1010000}, l \in {980000, 1020000},
        v \in {1000000, 9999999}}

\* what a provider may answer: a frame with rows, or one without
\* (a CSV holding only its header; yf.download on an unknown ticker)
ProviderFrames == {EmptyFrame, StrongFrame, NearMissFrame}

Yield(data) == IF IsEmpty(data) THEN "empty" ELSE "data"

AtProvider(p) == de_pc = p

\* if self.boto3_available is false the try block falls through
S3Unavailable ==
    /\ AtProvider("s3") /\ ~boto3_available
    /\ de_pc' = "yahoo"
    /\ UNCHANGED <<boto3_available, de_ticker, consulted, de_returned>>
    /\ UNCHANGED <<scanVars, quoteVars, scoreVars, twinVars, authVars>>

\* get_object and read_csv succeed: return data
S3Returns(data) ==
    /\ AtProvider("s3") /\ boto3_available
    /\ consulted' = Append(consulted, <<"s3", Yield(data)>>)
    /\ de_returned' = data
    /\ de_pc' = "done"
    /\ UNCHANGED <<boto3_available, de_ticker>>
    /\ UNCHANGED <<scanVars, quoteVars, scoreVars, twinVars, authVars>>

\* except Exception as e: print(...), then on to Yahoo Finance
S3Raises ==
    /\ AtProvider("s3") /\ boto3_available
    /\ consulted' = Append(consulted, <<"s3", "raise">>)
    /\ de_pc' = "yahoo"
    /\ UNCHANGED <<boto3_available, de_ticker, de_returned>>
    /\ UNCHANGED <<scanVars, quoteVars, scoreVars, twinVars, authVars>>

\* yf.download(...) answers: return data
YahooReturns(data) ==
    /\ AtProvider("yahoo")
    /\ consulted' = Append(consulted, <<"yfinance", Yield(data)>>)
    /\ de_returned' = data
    /\ de_pc' = "done"
    /\ UNCHANGED <<boto3_available, de_ticker>>
    /\ UNCHANGED <<scanVars, quoteVars, scoreVars, twinVars, authVars>>

\* the import or the download raises: except: generate sample data
YahooRaises(sample) ==
    /\ AtProvider("yahoo")
    /\ consulted' = consulted \o << <<"yfinance", "raise">>,
                                    <<"synthetic", Yield(sample)>> >>
    /\ de_returned' = sample
    /\ de_pc' = "done"
    /\ UNCHANGED <<boto3_available, de_ticker>>
    /\ UNCHANGED <<scanVars, quoteVars, scoreVars, twinVars, authVars>>

InitData ==
    /\ boto3_available \in BOOLEAN
    /\ de_ticker \in {PriorityWatchlist[k] : k \in 1..Len(PriorityWatchlist)}
    /\ de_pc = "s3"
    /\ consulted = <<>> /\ de_returned = "pending"
    /\ ScanIdle /\ QuoteIdle /\ ScoreIdle /\ TwinIdle /\ AuthIdle

NextData ==
    \/ S3Unavailable
    \/ \E data \in ProviderFrames : S3Returns(data)
    \/ S3Raises
    \/ \E data \in ProviderFrames : YahooReturns(data)
    \/ \E sample \in SyntheticFrames : YahooRaises(sample)

SpecData == InitData /\ [][NextData]_vars

----------------------------------------------------------------------------
(* LiveDataEngine.get_real_time_quote *)

\* what yf.Ticker(ticker).history(period='1d', interval='1m') may do: raise,
\* answer no rows, or answer rows; the last row has a close and a volume, and
\* the volume may be NaN (a minute without trades)
LiveHistory(kind, close, volume, nan) ==
    [kind |-> kind, close |-> close, volume |-> volume, volume_is_nan |-> nan]

QuoteCloses == {9900, 1000000, 1250000}
QuoteVolumes == {0, 1000, 5000000}

\* variant: the placeholder carries the tag of the live provider
FallbackQuoteMistagged ==
    [price |-> 1000000, volume |-> 1000000, timestamp |-> "now",
     source |-> "yfinance"]

\* the quote after the try block
FallbackQuote ==
    [price |-> 1000000, volume |-> 1000000, timestamp |-> "now",
     source |-> "fallback"]

\* the history has rows and float(close), int(volume) succeed
QuoteLiveReturns(close, volume) ==
    /\ q_pc = "live"
    /\ q_live' = LiveHistory("rows", close, volume, FALSE)
    /\ q_returned' = [price |-> close, volume |-> volume, timestamp |-> "now",
                      source |-> "yfinance"]
    /\ q_pc' = "done"
    /\ UNCHANGED <<q_ticker, q_raised>>
    /\ UNCHANGED <<scanVars, dataVars, scoreVars, twinVars, authVars>>

\* data.empty: the if is skipped
QuoteLiveEmpty ==
    /\ q_pc = "live"
    /\ q_live' = LiveHistory("empty", 0, 0, FALSE)
    /\ q_returned' = FallbackQuote
    /\ q_pc' = "done"
    /\ UNCHANGED <<q_ticker, q_raised>>
    /\ UNCHANGED <<scanVars, dataVars, scoreVars, twinVars, authVars>>

\* the import, yf.Ticker or history raises: except: pass
QuoteLiveRaises ==
    /\ q_pc = "live"
    /\ q_live' = LiveHistory("raise", 0, 0, FALSE)
    /\ q_returned' = FallbackQuote
    /\ q_pc' = "done"
    /\ UNCHANGED <<q_ticker, q_raised>>
    /\ UNCHANGED <<scanVars, dataVars, scoreVars, twinVars, authVars>>

\* the history has rows but int(NaN) raises ValueError: except: pass
QuoteConversionRaises(close) ==
    /\ q_pc = "live"
    /\ q_live' = LiveHistory("rows", close, 0, TRUE)
    /\ q_returned' = FallbackQuote
    /\ q_pc' = "done"
    /\ UNCHANGED <<q_ticker, q_raised>>
    /\ UNCHANGED <<scanVars, dataVars, scoreVars, twinVars, authVars>>

InitQuote ==
    /\ q_ticker \in {PriorityWatchlist[k] : k \in 1..Len(PriorityWatchlist)}
    /\ q_pc = "live" /\ q_live = "pending"
    /\ q_returned = "pending" /\ q_raised = "none"
    /\ ScanIdle /\ DataIdle /\ ScoreIdle /\ TwinIdle /\ AuthIdle

NextQuote ==
    \/ \E c \in QuoteCloses, v \in QuoteVolumes : QuoteLiveReturns(c, v)
    \/ QuoteLiveEmpty
    \/ QuoteLiveRaises
    \/ \E c \in QuoteCloses : QuoteConversionRaises(c)

SpecQuote == InitQuote /\ [][NextQuote]_vars

----------------------------------------------------------------------------
(* One analysis: the three scores, _analyze_stock, _generate_trade_plan *)

\* the longest series analysed
MaxBars == 21

\* data.iloc[-n:]
TakeLast(data, n) ==
    Frame(data.columns, LastN(data.Close, n), LastN(data.Volume, n))

\* the same bars without the Volume column
WithoutVolume(data) == Frame(data.columns \ {"Volume"}, data.Close, <<>>)

\* closes: 0 is a broken quote, 400 is $0.04, 10367 ($1.0367) has digits
\* below the cent, 1000000 is $100.00
BaseCloses == {9600, 10000}
FifthCloses == {0, 9600, 10000}
PrevCloses == {9900, 10000, 11000}
LastCloses == {0, 400, 9900, 10000, 10367, 12500, 1000000}
\* against 100 on the older bars, 180 and 300 on the last five make the
\* volume ratio exactly 1.5 and exactly 2
OldVolumes == {0, 100}
NewVolumes == {0, 100, 160, 180, 200, 300, 700}

ScoreFrames ==
    LET full == {Bars(MaxBars, base, c5, prev, last, vOld, vNew) :
                     base \in BaseCloses, c5 \in FifthCloses,
                     prev \in PrevCloses, last \in LastCloses,
                     vOld \in OldVolumes, vNew \in NewVolumes}
        cut == {TakeLast(f, n) : f \in full, n \in 0..MaxBars}
        \* no Close column: 1 bar is analysed, from 2 bars on the label raises
        noClose == {TakeLast(NoCloseFrame, n) : n \in {1, 2, 9}}
    IN  cut \cup {WithoutVolume(f) : f \in cut} \cup noClose

\* the three scores of the series
CalculateScores ==
    /\ sc_pc = "score"
    /\ sc_scores' = [momentum |-> calculate_momentum(sc_data),
                     volume |-> calculate_volume(sc_data),
                     trend |-> calculate_trend(sc_data)]
    /\ sc_pc' = "analyze"
    /\ UNCHANGED <<sc_data, sc_analysis, sc_plan, sc_results>>
    /\ UNCHANGED <<scanVars, dataVars, quoteVars, twinVars, authVars>>

\* analysis = self._analyze_stock(ticker, data)
AnalyzeStock ==
    /\ sc_pc = "analyze"
    /\ ~AnalysisRaises(sc_data)
    /\ sc_analysis' = analyze_stock("NVDA", sc_data)
    /\ sc_pc' = IF IsEmpty(sc_data) THEN "done" ELSE "plan"
    /\ UNCHANGED <<sc_data, sc_scores, sc_plan, sc_results>>
    /\ UNCHANGED <<scanVars, dataVars, quoteVars, twinVars, authVars>>

\* self._generate_trade_plan(analysis), for an analysis that has a price
GenerateTradePlan ==
    /\ sc_pc = "plan"
    /\ sc_plan' = generate_trade_plan(sc_analysis)
    /\ sc_pc' = "done"
    /\ UNCHANGED <<sc_data, sc_scores, sc_analysis, sc_results>>
    /\ UNCHANGED <<scanVars, dataVars, quoteVars, twinVars, authVars>>

\* data['Close'] raises KeyError inside _analyze_stock
AnalyzeStockRaises ==
    /\ sc_pc = "analyze"
    /\ AnalysisRaises(sc_data)
    /\ sc_pc' = "raised"
    /\ UNCHANGED <<sc_data, sc_scores, sc_analysis, sc_plan, sc_results>>
    /\ UNCHANGED <<scanVars, dataVars, quoteVars, twinVars, authVars>>

\* one turn of the scan loop for a ticker whose fetch answers sc_data:
\* if data is not None and not data.empty: analyse, filter, attach the plan
ScanTicker ==
    /\ sc_pc \in {"done", "raised"}
    /\ sc_results' = IF IsEmpty(sc_data) THEN <<>>
                      ELSE LoopBody(<<>>, "NVDA", sc_data)
    /\ sc_pc' = "scanned"
    /\ UNCHANGED <<sc_data, sc_scores, sc_analysis, sc_plan>>
    /\ UNCHANGED <<scanVars, dataVars, quoteVars, twinVars, authVars>>

InitScore ==
    /\ sc_data \in ScoreFrames
    /\ sc_pc = "score" /\ sc_scores = "pending"
    /\ sc_analysis = "pending" /\ sc_plan = "pending" /\ sc_results = <<>>
    /\ ScanIdle /\ DataIdle /\ QuoteIdle /\ TwinIdle /\ AuthIdle

NextScore ==
    \/ CalculateScores
    \/ AnalyzeStock
    \/ AnalyzeStockRaises
    \/ GenerateTradePlan
    \/ ScanTicker

SpecScore == InitScore /\ [][NextScore]_vars

----------------------------------------------------------------------------
(* Two invocations of scan_best_opportunities on the same scanner, their   *)
(* steps interleaved in any order (one after the other included).  The     *)
(* scanner's only field, priority_tickers, is read and never written.      *)

\* the first MaxTwinLive tickers may be answered a frame with rows
MaxTwinLive == 1
TwinFrames == {StrongFrame, BoundaryFrame}
TwinMaxResults == {1, 5}

TickerOf(s) == ScanSlice(priority_tickers)[scans[s].i]
InLoopOf(s) ==
    scans[s].pc = "loop" /\ scans[s].i <= Len(ScanSlice(priority_tickers))

\* scan_best_opportunities(max_results) is entered: results = []
StartScan(s, n) ==
    /\ scans[s].pc = "idle"
    /\ scans' = [scans EXCEPT ![s] = [NotStarted EXCEPT !.pc = "loop",
                                                          !.max_results = n]]
    /\ UNCHANGED <<scanVars, dataVars, quoteVars, scoreVars, authVars>>

\* the fetch raises, or answers None or an empty frame: next ticker
ScanFetchNothing(s) ==
    /\ InLoopOf(s)
    /\ scans' = [scans EXCEPT ![s].i = @ + 1]
    /\ UNCHANGED <<scanVars, dataVars, quoteVars, scoreVars, authVars>>

\* variant: `results` is a field of the scanner, one list for every invocation
ScanFetchDataSharedResults(s, data) ==
    /\ InLoopOf(s) /\ scans[s].i <= MaxTwinLive
    /\ ~IsEmpty(data)
    /\ LET res == LoopBody(scans[s].results, TickerOf(s), data)
       IN  scans' = [k \in ScanIds |->
                        IF k = s
                        THEN [scans[k] EXCEPT
                                 !.responses = Append(@, Response(TickerOf(s), "data", data)),
                                 !.results = res,
                                 !.i = @ + 1]
                        ELSE [scans[k] EXCEPT !.results = res]]
    /\ UNCHANGED <<scanVars, dataVars, quoteVars, scoreVars, authVars>>

\* the fetch answers a frame with rows: analysis, filter, plan, append to the
\* local list
ScanFetchData(s, data) ==
    /\ InLoopOf(s) /\ scans[s].i <= MaxTwinLive
    /\ ~IsEmpty(data)
    /\ scans' = [scans EXCEPT
                    ![s].responses = Append(@, Response(TickerOf(s), "data", data)),
                    ![s].results = LoopBody(@, TickerOf(s), data),
                    ![s].i = @ + 1]
    /\ UNCHANGED <<scanVars, dataVars, quoteVars, scoreVars, authVars>>

\* results.sort(...); return results[:max_results]
ScanSortAndReturn(s) ==
    /\ scans[s].pc = "loop" /\ scans[s].i > Len(ScanSlice(priority_tickers))
    /\ LET sorted == SortByScoreDesc(scans[s].results)
       IN  scans' = [scans EXCEPT
                        ![s].results = sorted,
                        ![s].returned = PySliceTo(sorted, scans[s].max_results),
                        ![s].pc = "done"]
    /\ UNCHANGED <<scanVars, dataVars, quoteVars, scoreVars, authVars>>

InitTwin ==
    /\ TwinIdle
    /\ ScanIdle /\ DataIdle /\ QuoteIdle /\ ScoreIdle /\ AuthIdle

NextTwin ==
    \E s \in ScanIds :
        \/ \E n \in TwinMaxResults : StartScan(s, n)
        \/ ScanFetchNothing(s)
        \/ \E data \in TwinFrames : ScanFetchData(s, data)
        \/ ScanSortAndReturn(s)

SpecTwin == InitTwin /\ [][NextTwin]_vars

----------------------------------------------------------------------------
(* AuthManager: authenticate_user and logout on one session (src/auth.py) *)

\* create_token is called at most MaxTokens times
MaxTokens == 4

Identifiers == {"alice", "bob", "mallory"}
Passwords == {"pw-alice", "pw-bob"}

\* bcrypt.hashpw, the salt left out
hash_password(password) == <<"bcrypt", password>>

\* bcrypt.checkpw(plain_password, hashed_password)
verify_password(plain_password, hashed_password) ==
    hash_password(plain_password) = hashed_password

\* db.get_user_by_identifier(identifier) finds a row
UserFound(identifier) == identifier \in DOMAIN Users

\* if not user: return {"success": False, "error": "User not found"}
AuthenticateUnknownUser(identifier, password) ==
    /\ ~UserFound(identifier)
    /\ auth_result' = "User not found"
    /\ UNCHANGED <<ss_user, ss_authenticated, ss_token, last_login, tokens_issued>>
    /\ UNCHANGED <<scanVars, dataVars, quoteVars, scoreVars, twinVars>>

\* variant: a wrong password ends the session
AuthenticateWrongPasswordClears(identifier, password) ==
    /\ UserFound(identifier)
    /\ ~verify_password(password, Users[identifier])
    /\ auth_result' = "Invalid password"
    /\ ss_user' = "None" /\ ss_authenticated' = FALSE /\ ss_token' = 0
    /\ UNCHANGED <<last_login, tokens_issued>>
    /\ UNCHANGED <<scanVars, dataVars, quoteVars, scoreVars, twinVars>>

\* if not self.verify_password(...): return {"success": False, ...}
AuthenticateWrongPassword(identifier, password) ==
    /\ UserFound(identifier)
    /\ ~verify_password(password, Users[identifier])
    /\ auth_result' = "Invalid password"
    /\ UNCHANGED <<ss_user, ss_authenticated, ss_token, last_login, tokens_issued>>
    /\ UNCHANGED <<scanVars, dataVars, quoteVars, scoreVars, twinVars>>

\* update_last_login, create_token, then the three session fields
AuthenticateSucceeds(identifier, password) ==
    /\ UserFound(identifier)
    /\ verify_password(password, Users[identifier])
    /\ tokens_issued < MaxTokens
    /\ tokens_issued' = tokens_issued + 1
    /\ last_login' = [last_login EXCEPT ![identifier] = tokens_issued']
    /\ ss_user' = identifier
    /\ ss_authenticated' = TRUE
    /\ ss_token' = tokens_issued'
    /\ auth_result' = "success"
    /\ UNCHANGED <<scanVars, dataVars, quoteVars, scoreVars, twinVars>>

\* logout
Logout ==
    /\ ss_user' = "None" /\ ss_authenticated' = FALSE /\ ss_token' = 0
    /\ auth_result' = "logout"
    /\ UNCHANGED <<last_login, tokens_issued>>
    /\ UNCHANGED <<scanVars, dataVars, quoteVars, scoreVars, twinVars>>

InitAuth ==
    /\ AuthIdle
    /\ ScanIdle /\ DataIdle /\ QuoteIdle /\ ScoreIdle /\ TwinIdle

NextAuth ==
    \/ \E id \in Identifiers, pw \in Passwords : AuthenticateUnknownUser(id, pw)
    \/ \E id \in Identifiers, pw \in Passwords : AuthenticateWrongPassword(id, pw)
    \/ \E id \in Identifiers, pw \in Passwords : AuthenticateSucceeds(id, pw)
    \/ Logout

SpecAuth == InitAuth /\ [][NextAuth]_vars

----------------------------------------------------------------------------
(* Properties of scan_best_opportunities (specification Spec) *)

Done == pc = "done"
Scanned == ScanSlice(priority_tickers)
Score75 == Rat(75, 1)

\* position of ticker t in the universe (0 when absent)
PositionOf(t) ==
    IF \E k \in 1..Len(priority_tickers) : priority_tickers[k] = t
    THEN CHOOSE k \in 1..Len(priority_tickers) : priority_tickers[k] = t
    ELSE 0

Raising(r) == r.kind = "raise" \/ AnalysisRaises(r.data)
Survivors == SelectSeq(responses, LAMBDA r : ~Raising(r))

\* the analyses of the scanned tickers that qualify, in universe order
RECURSIVE QualifyingOf(_)
QualifyingOf(resps) ==
    IF resps = <<>> THEN <<>>
    ELSE LET r == Head(resps)
             a == analyze_stock(r.ticker, r.data)
         IN  (IF RatGE(a.score, Score75) THEN <<a>> ELSE <<>>)
             \o QualifyingOf(Tail(resps))
QualifyingAnalyses == QualifyingOf(Survivors)

\* the result of a scan whose data source answers `resps` and nothing else
RECURSIVE ReplayLoop(_)
ReplayLoop(resps) ==
    IF resps = <<>> THEN <<>>
    ELSE LET r == resps[Len(resps)]
         IN  LoopBody(ReplayLoop(SubSeq(resps, 1, Len(resps) - 1)), r.ticker, r.data)
ScanOf(resps, n) == PySliceTo(SortByScoreDesc(ReplayLoop(resps)), n)

\* C1: every Analysis in the list a scan returns has combined score >= 75.
C1_ReturnedAboveThreshold ==
    \A k \in 1..Len(returned) : RatGE(returned[k].score, Score75)

\* a scan returned an analysis after a fetch answered a frame that scores below 75
C1_Witness ==
    /\ Done /\ returned /= <<>>
    /\ \E k \in 1..Len(responses) :
          /\ ~Raising(responses[k])
          /\ ~RatGE(analyze_stock("X", responses[k].data).score, Score75)

\* C2: fetches (or analyses) that raise never abort the scan; its result is
\* that of a scan in which the raising tickers are absent, so every other
\* qualifying ticker is in it (when max_results leaves room for all of them).
C2_RaisingTickersSkipped ==
    Done =>
        LET Q == QualifyingAnalyses
        IN  /\ raised = "none"
            /\ Len(fetched) = Len(Scanned)
            /\ returned = ScanOf(Survivors, max_results)
            /\ Len(Q) <= max_results =>
                  \A k \in 1..Len(Q) :
                      \E j \in 1..Len(returned) : returned[j].ticker = Q[k].ticker

\* three tickers answered: the fetch of the second raised, the analysis of
\* another raised, and the two that qualified are both in the result
C2_Witness ==
    /\ Done /\ Len(responses) = 4 /\ Len(returned) = 2
    /\ responses[2].kind = "raise"
    /\ \E k \in {3, 4} : responses[k].kind = "data" /\ Raising(responses[k])
    /\ \E j \in 1..2 : returned[j].ticker = responses[1].ticker

\* C3: the returned list is in descending order of combined score.
C3_SortedDescending ==
    \A k \in 1..(Len(returned) - 1) :
        RatGE(returned[k].score, returned[k + 1].score)

\* two entries, the higher-scoring one fetched after the lower-scoring one
C3_Witness ==
    /\ Done /\ Len(returned) = 2 /\ Len(responses) = 2
    /\ RatGT(returned[1].score, returned[2].score)
    /\ returned[1].ticker = responses[2].ticker
    /\ returned[2].ticker = responses[1].ticker

\* C4: for a positive max_results n and k qualifying analyses the result has
\* exactly min(n, k) entries, all of them qualifying analyses of the scan, and no
\* qualifying analysis left out scores strictly higher than an entry.
C4_TopMinOfNAndK ==
    (Done /\ max_results > 0) =>
        LET Q == QualifyingAnalyses
            InResult(t) == \E j \in 1..Len(returned) : returned[j].ticker = t
        IN  /\ Len(returned) = Min(max_results, Len(Q))
            /\ \A j \in 1..Len(returned) :
                  \E k \in 1..Len(Q) :
                      /\ Q[k].ticker = returned[j].ticker
                      /\ Q[k].score = returned[j].score
            /\ \A j1, j2 \in 1..Len(returned) :
                  returned[j1].ticker = returned[j2].ticker => j1 = j2
            /\ \A k \in 1..Len(Q) :
                  ~InResult(Q[k].ticker) =>
                      \A j \in 1..Len(returned) :
                          ~RatGT(Q[k].score, returned[j].score)

\* max_results = 2 and four qualifying analyses, the best of them fetched last
C4_Witness ==
    /\ Done /\ max_results = 2
    /\ Len(QualifyingAnalyses) = 4 /\ Len(returned) = 2
    /\ \A k \in 1..3 :
          RatGT(QualifyingAnalyses[4].score, QualifyingAnalyses[k].score)
    /\ returned[1].ticker = QualifyingAnalyses[4].ticker

C6_NonPositiveMaxResultsRejected ==
    max_results <= 0 =>
        /\ fetched = <<>>
        /\ Done => raised = "InvalidArgument"

\* C7: when every ticker of the universe fails to fetch (or to analyse) or
\* yields no data, the scan returns an empty result and raises nothing.
C7_ExhaustedUniverseReturnsEmpty ==
    (Done /\ \A k \in 1..Len(responses) : Raising(responses[k])) =>
        /\ returned = <<>>
        /\ raised = "none"

\* fifteen tickers fetched, some raising and the others without data
C7_Witness ==
    /\ Done /\ Len(fetched) = 15
    /\ responses /= <<>>
    /\ \A k \in 1..Len(responses) : responses[k].kind = "raise"
    /\ returned = <<>> /\ raised = "none"

\* C8: the sort is stable: entries of equal combined score appear in the order
\* in which their tickers come in the universe.
C8_StableTieBreak ==
    \A j1, j2 \in 1..Len(returned) :
        (j1 < j2 /\ RatEQ(returned[j1].score, returned[j2].score)) =>
            PositionOf(returned[j1].ticker) < PositionOf(returned[j2].ticker)

\* two entries of equal score in the result
C8_Witness ==
    /\ Done /\ Len(returned) = 2
    /\ RatEQ(returned[1].score, returned[2].score)
    /\ PositionOf(returned[1].ticker) < PositionOf(returned[2].ticker)

\* C9: the fetches of a scan are the first min(15, length) tickers of the
\* universe, in order, each once, whatever the earlier fetches answered; no
\* ticker from position 16 on is fetched or returned.
C9_FetchesAreTheFirstFifteen ==
    LET n == Min(15, Len(priority_tickers))
    IN  /\ Len(fetched) <= n
        /\ \A k \in 1..Len(fetched) : fetched[k] = priority_tickers[k]
        /\ pc = "loop" => Len(fetched) = i - 1
        /\ Done => /\ Len(fetched) = n
                   /\ Cardinality({fetched[k] : k \in 1..n}) = n
        /\ \A j \in 1..Len(returned) :
              PositionOf(returned[j].ticker) \in 1..15

\* a finished scan of the 21-ticker watchlist, with a raising fetch and a
\* fetch that answered data among the fifteen
C9_Witness ==
    /\ Done /\ Len(priority_tickers) > 15 /\ Len(fetched) = 15
    /\ \E k \in 1..Len(responses) : responses[k].kind = "raise"
    /\ \E k \in 1..Len(responses) : responses[k].kind = "data"

----------------------------------------------------------------------------
(* Properties of get_market_data (specification SpecData) *)

Providers == <<"s3", "yfinance", "synthetic">>
ProviderRank(p) == CHOOSE k \in 1..3 : Providers[k] = p

\* C10: providers are tried in the order bulk store, live provider, synthetic
\* generator; a later one is consulted exactly when every earlier one failed to
\* yield data, so the caller never receives an empty series.
C10_FirstYieldingProviderWins ==
    de_pc = "done" =>
        /\ \A j, k \in 1..Len(consulted) :
              j < k => ProviderRank(consulted[j][1]) < ProviderRank(consulted[k][1])
        /\ \A k \in 1..(Len(consulted) - 1) : consulted[k][2] /= "data"
        /\ consulted[Len(consulted)][2] = "data"
        /\ ~IsEmpty(de_returned)

\* a frame that tells its caller which kind of provider served it
Tagged(data) == "source" \in DOMAIN data \/ "source" \in data.columns

\* C11: a series served by the synthetic generator carries a source tag that
\* distinguishes it from data served by a real provider.
C11_SyntheticSeriesTagged ==
    (de_pc = "done" /\ consulted[Len(consulted)][1] = "synthetic") =>
        Tagged(de_returned)

----------------------------------------------------------------------------
(* Properties of get_real_time_quote (specification SpecQuote) *)

QuoteFields == {"price", "volume", "timestamp", "source"}

\* C12 as stated: the call never fails and returns a quote with its four
\* fields, tagged as the placeholder exactly when the live provider did not
\* yield a non-empty history.
C12_FallbackIffNoHistory ==
    q_pc = "done" =>
        /\ q_raised = "none"
        /\ DOMAIN q_returned = QuoteFields
        /\ q_returned.source = "fallback" <=> q_live.kind /= "rows"

\* C12 amended: the call never fails and returns a quote with its four fields,
\* tagged as the placeholder exactly when the live provider raised, yielded an
\* empty history, or yielded a last row that cannot be converted (NaN volume);
\* otherwise the quote is the last row of the history, tagged yfinance.
C12_FallbackIffNoUsableHistory ==
    q_pc = "done" =>
        /\ q_raised = "none"
        /\ DOMAIN q_returned = QuoteFields
        /\ q_returned.source \in {"fallback", "yfinance"}
        /\ q_returned.source = "fallback" <=>
              (q_live.kind /= "rows" \/ q_live.volume_is_nan)
        /\ q_returned.source = "yfinance" =>
              /\ q_returned.price = q_live.close
              /\ q_returned.volume = q_live.volume

\* the placeholder was served for a history that has rows
C12_Witness ==
    /\ q_pc = "done" /\ q_live.kind = "rows" /\ q_live.volume_is_nan
    /\ q_returned.source = "fallback"

----------------------------------------------------------------------------
(* Properties of the scores and of the trade plan (specification SpecScore) *)

Scored == sc_pc \in {"analyze", "plan", "done"}
Analysed == sc_pc \in {"plan", "done"}
Planned == sc_pc = "done" /\ ~IsEmpty(sc_data)

\* C13: a series of fewer than 10 bars has momentum score 50 and volume score
\* 50; a series of fewer than 20 bars has trend score 50.
C13_ShortSeriesNeutral ==
    Scored =>
        /\ sc_data.len < 10 =>
              /\ sc_scores.momentum = Rat(50, 1)
              /\ sc_scores.volume = 50
        /\ sc_data.len < 20 => sc_scores.trend = 50

\* 9 bars with a move between close[-5] and the latest close, and 19 rising
\* bars, have been scored
C13_Witness ==
    /\ Scored
    /\ "Close" \in sc_data.columns
    /\ \/ /\ sc_data.len = 9 /\ "Volume" \in sc_data.columns
          /\ ILoc(sc_data.Close, 1) > ILoc(sc_data.Close, 5)
          /\ ILoc(sc_data.Close, 5) > 0
       \/ /\ sc_data.len = 19
          /\ ILoc(sc_data.Close, 1) > ILoc(sc_data.Close, 2)
          /\ ILoc(sc_data.Close, 2) > ILoc(sc_data.Close, 5)

\* C14: the combined score of an analysis lies in [0, 100], for the empty
\* series, for extreme price moves and for zero volumes as for any other.
C14_ScoreInRange ==
    Analysed =>
        /\ RatGE(sc_analysis.score, Rat(0, 1))
        /\ RatGE(Rat(100, 1), sc_analysis.score)

\* a series whose latest close fell to 0 with no volume at all was analysed
C14_Witness ==
    /\ Analysed /\ sc_data.len >= 20
    /\ ILoc(sc_data.Close, 1) = 0 /\ ILoc(sc_data.Close, 5) > 0
    /\ "Volume" \in sc_data.columns /\ Sum(sc_data.Volume) = 0

\* x cents is k/100 of the price p, rounded to the cent
NearestCent(x, k, p) == 2 * Abs(10000 * x - k * p) <= 10000

\* C15: the entry of a plan is the price rounded to 2 decimals; a BULLISH
\* analysis gives a LONG plan with stop 0.93 p and target 1.21 p, any other
\* label a SHORT plan with stop 1.07 p and target 0.79 p, rounded to 2
\* decimals; $100 gives 93.00 / 121.00 and 107.00 / 79.00.
C15_PlanLevels ==
    Planned =>
        LET p == sc_analysis.price
            bullish == sc_analysis.trend = "BULLISH"
        IN  /\ NearestCent(sc_plan.entry, 100, p)
            /\ bullish =>
                  /\ sc_plan.direction = "LONG"
                  /\ NearestCent(sc_plan.stop_loss, 93, p)
                  /\ NearestCent(sc_plan.target, 121, p)
                  /\ p = 1000000 =>
                        sc_plan.stop_loss = 9300 /\ sc_plan.target = 12100
            /\ ~bullish =>
                  /\ sc_plan.direction = "SHORT"
                  /\ NearestCent(sc_plan.stop_loss, 107, p)
                  /\ NearestCent(sc_plan.target, 79, p)
                  /\ p = 1000000 =>
                        sc_plan.stop_loss = 10700 /\ sc_plan.target = 7900

\* a SHORT plan was built for a NEUTRAL analysis whose price has digits below
\* the cent
C15_Witness ==
    /\ Planned /\ sc_analysis.trend = "NEUTRAL"
    /\ sc_analysis.price % 100 /= 0 /\ sc_plan.direction = "SHORT"

\* C16: risk_reward is reward / risk with risk = |entry - stop| and
\* reward = |target - entry|, and 0 when the risk is 0: 3.0 for every non-zero
\* price in either direction, 0 for the price 0.
C16_RiskRewardThree ==
    Planned =>
        /\ sc_analysis.price /= 0 => sc_plan.risk_reward = 300
        /\ sc_analysis.price = 0 => sc_plan.risk_reward = 0

\* a plan was built for the price 0
C16_Witness ==
    /\ Planned
    /\ sc_analysis.price = 0 /\ sc_plan.risk_reward = 0

\* C17: confidence and position size are a step function of the combined
\* score: VERY HIGH and "10-15%" from 85, HIGH and "7-10%" from 75 to below
\* 85, MODERATE and "5-7%" below 75; the timeframe is always "3-10 days".
C17_ConfidenceBands ==
    Planned =>
        LET s == sc_analysis.score
            veryHigh == 10 * s.n >= 850 * s.d
            high == 10 * s.n >= 750 * s.d /\ 10 * s.n < 850 * s.d
        IN  /\ sc_plan.timeframe = "3-10 days"
            /\ veryHigh =>
                  sc_plan.confidence = "VERY HIGH" /\ sc_plan.position_size = "10-15%"
            /\ high =>
                  sc_plan.confidence = "HIGH" /\ sc_plan.position_size = "7-10%"
            /\ (~veryHigh /\ ~high) =>
                  sc_plan.confidence = "MODERATE" /\ sc_plan.position_size = "5-7%"

\* a plan was built for a score of exactly 75
C17_Witness ==
    /\ Planned /\ sc_analysis.score = Rat(75, 1)
    /\ sc_plan.confidence = "HIGH"

\* the score for a change of (a - b) / b: 50 + 2 * percent change, clamped
MomentumOf(m, a, b) ==
    LET n == 50 * b + 200 * (a - b)    \* (50 + 2 c) * b
    IN  /\ (n >= 0 /\ n <= 100 * b) => m.n * b = n * m.d
        /\ n > 100 * b => m = Rat(100, 1)
        /\ n < 0 => m = Rat(0, 1)
        /\ 100 * (a - b) >= 25 * b => m = Rat(100, 1)
        /\ 100 * (a - b) <= -25 * b => m = Rat(0, 1)

\* C19 as stated: from 10 bars on the momentum score is 50 + 2 c clamped to
\* [0, 100], c the percent change between the latest close and the close 5
\* bars prior to it (close[-6]).
C19_ChangeOverFiveBars ==
    (Scored /\ sc_data.len >= 10 /\ ILoc(sc_data.Close, 6) > 0) =>
        MomentumOf(sc_scores.momentum, ILoc(sc_data.Close, 1),
                   ILoc(sc_data.Close, 6))

\* C19 amended: from 10 bars on the momentum score is 50 + 2 c clamped to
\* [0, 100], c the percent change between the latest close and the fifth
\* close from the end (close[-5], 4 bars before the latest); +25% or more
\* gives 100, -25% or less gives 0, and a close[-5] of 0 gives 100.
C19_ChangeFromFifthLast ==
    (Scored /\ sc_data.len >= 10) =>
        /\ ILoc(sc_data.Close, 5) > 0 =>
              MomentumOf(sc_scores.momentum, ILoc(sc_data.Close, 1),
                         ILoc(sc_data.Close, 5))
        /\ ILoc(sc_data.Close, 5) = 0 => sc_scores.momentum = Rat(100, 1)

\* close[-5] and close[-6] differ and the score is strictly inside (0, 100)
C19_Witness ==
    /\ Scored /\ sc_data.len >= 10
    /\ ILoc(sc_data.Close, 5) > 0 /\ ILoc(sc_data.Close, 6) > 0
    /\ ILoc(sc_data.Close, 5) /= ILoc(sc_data.Close, 6)
    /\ RatGT(sc_scores.momentum, Rat(50, 1))
    /\ RatGT(Rat(100, 1), sc_scores.momentum)

\* C20: from 10 bars on, with a Volume column, the volume score follows
\* r = mean(last 5 volumes) / mean(last 20 volumes): 90 for r > 2, 75 for
\* 1.5 < r <= 2, 60 for 1 < r <= 1.5, 40 for r <= 1; r is 1 with fewer than
\* 20 bars; the score is 50 when the longer-window mean is 0.
C20_VolumeBands ==
    (Scored /\ sc_data.len >= 10 /\ "Volume" \in sc_data.columns) =>
        LET s5 == Sum(LastN(sc_data.Volume, 5))
            s20 == Sum(LastN(sc_data.Volume, 20))
            v == sc_scores.volume
        IN  IF sc_data.len >= 20
            THEN /\ s20 = 0 => v = 50
                 \* r = (s5 / 5) / (s20 / 20) = 4 s5 / s20
                 /\ (s20 > 0 /\ 4 * s5 > 2 * s20) => v = 90
                 /\ (s20 > 0 /\ 8 * s5 > 3 * s20 /\ 4 * s5 <= 2 * s20) => v = 75
                 /\ (s20 > 0 /\ 4 * s5 > s20 /\ 8 * s5 <= 3 * s20) => v = 60
                 /\ (s20 > 0 /\ 4 * s5 <= s20) => v = 40
            ELSE /\ s5 = 0 => v = 50
                 /\ s5 > 0 => v = 40

\* the ratio is exactly 1.5
C20_Witness ==
    /\ Scored /\ sc_data.len >= 20 /\ "Volume" \in sc_data.columns
    /\ Sum(LastN(sc_data.Volume, 20)) > 0
    /\ 8 * Sum(LastN(sc_data.Volume, 5)) = 3 * Sum(LastN(sc_data.Volume, 20))
    /\ sc_scores.volume = 60

\* C21: from 20 bars on, with MA10 and MA20 the means of the last 10 and the
\* last 20 closes, the trend score is 85 exactly when latest > MA10 > MA20,
\* 15 exactly when latest < MA10 < MA20, and 50 otherwise.
C21_TrendBands ==
    (Scored /\ sc_data.len >= 20) =>
        LET last == ILoc(sc_data.Close, 1)
            s10 == Sum(LastN(sc_data.Close, 10))    \* 10 MA10
            s20 == Sum(LastN(sc_data.Close, 20))    \* 20 MA20
            up == 10 * last > s10 /\ 2 * s10 > s20
            down == 10 * last < s10 /\ 2 * s10 < s20
        IN  /\ sc_scores.trend = 85 <=> up
            /\ sc_scores.trend = 15 <=> down
            /\ sc_scores.trend = 50 <=> (~up /\ ~down)

\* 20 bars with latest = MA10 = MA20 were scored 50
C21_Witness ==
    /\ Scored /\ sc_data.len >= 20
    /\ 10 * ILoc(sc_data.Close, 1) = Sum(LastN(sc_data.Close, 10))
    /\ 2 * Sum(LastN(sc_data.Close, 10)) = Sum(LastN(sc_data.Close, 20))
    /\ sc_scores.trend = 50

\* C22: the combined score of a non-empty series is 0.4 momentum score +
\* 0.3 volume score + 0.3 trend score of that series.
C22_WeightedSum ==
    (Analysed /\ ~IsEmpty(sc_data)) =>
        LET m == sc_scores.momentum
            s == sc_analysis.score
        IN  10 * s.n * m.d =
                (4 * m.n + 3 * (sc_scores.volume + sc_scores.trend) * m.d) * s.d

\* a series whose three scores all differ was analysed
C22_Witness ==
    /\ Analysed /\ ~IsEmpty(sc_data)
    /\ sc_scores.momentum = Rat(100, 1)
    /\ sc_scores.volume = 40 /\ sc_scores.trend = 85

\* C23: the trend label is BULLISH exactly when the latest close is above the
\* previous one, BEARISH when it is equal or lower, and NEUTRAL with a price
\* change of 0 when the series has fewer than 2 bars.
C23_TrendLabel ==
    (Analysed /\ ~IsEmpty(sc_data)) =>
        IF sc_data.len >= 2
        THEN LET last == ILoc(sc_data.Close, 1)
                 prev == ILoc(sc_data.Close, 2)
             IN  /\ sc_analysis.trend = "BULLISH" <=> last > prev
                 /\ sc_analysis.trend = "BEARISH" <=> last <= prev
        ELSE /\ sc_analysis.trend = "NEUTRAL"
             /\ sc_analysis.price_change.n = 0

\* an unchanged close was labelled BEARISH
C23_Witness ==
    /\ Analysed /\ sc_data.len >= 2
    /\ ILoc(sc_data.Close, 1) = ILoc(sc_data.Close, 2)
    /\ sc_analysis.trend = "BEARISH"

ScannedOne == sc_pc = "scanned"

\* C24: the empty series is analysed with combined score 0 and is not in the
\* result of the scan; a series of 1 to 19 bars is analysed without an
\* exception, with the neutral scores of short input (momentum and volume 50
\* below 10 bars, trend 50 below 20).
C24_EmptyAndShortSeries ==
    /\ (Analysed /\ IsEmpty(sc_data)) => sc_analysis.score = Rat(0, 1)
    /\ (ScannedOne /\ IsEmpty(sc_data)) => sc_results = <<>>
    /\ (sc_pc \notin {"score", "analyze"} /\ "Close" \in sc_data.columns
            /\ sc_data.len >= 1 /\ sc_data.len <= 19) =>
          /\ sc_pc /= "raised"
          /\ sc_analysis.trend_score = 50
          /\ sc_data.len < 10 =>
                /\ sc_analysis.momentum_score = Rat(50, 1)
                /\ sc_analysis.volume_score = 50

\* a single bar was analysed and the scan step has run
C24_Witness ==
    /\ ScannedOne /\ sc_data.len = 1 /\ "Close" \in sc_data.columns
    /\ sc_analysis.trend = "NEUTRAL" /\ sc_analysis.score = Rat(50, 1)
    /\ sc_results = <<>>

\* C27: a series of fewer than 20 bars scores below 75 and its ticker is not
\* in the result of the scan.
C27_ShortSeriesNeverIncluded ==
    /\ (Analysed /\ ~IsEmpty(sc_data) /\ sc_data.len < 20) =>
          ~RatGE(sc_analysis.score, Rat(InclusionThreshold, 1))
    /\ (ScannedOne /\ sc_data.len < 20) => sc_results = <<>>

\* 19 bars with momentum 100 reached 70 and were left out
C27_Witness ==
    /\ ScannedOne /\ sc_data.len = 19
    /\ sc_scores.momentum = Rat(100, 1)
    /\ sc_analysis.score = Rat(70, 1)
    /\ sc_results = <<>>

\* C28: an analysis with trend score 15 scores below 75, so every entry of a
\* scan result has trend score 50 or 85.
C28_DowntrendNeverIncluded ==
    /\ (Analysed /\ ~IsEmpty(sc_data) /\ sc_analysis.trend_score = 15) =>
          ~RatGE(sc_analysis.score, Rat(InclusionThreshold, 1))
    /\ ScannedOne =>
          \A k \in 1..Len(sc_results) : sc_results[k].trend_score \in {50, 85}

\* a downtrend with momentum 100 and volume 90 was left out
C28_Witness ==
    /\ ScannedOne /\ sc_scores.trend = 15
    /\ sc_scores.momentum = Rat(100, 1) /\ sc_scores.volume = 90
    /\ sc_results = <<>>

\* C29: the rounded levels of a plan built from a positive price are strictly
\* ordered: stop_loss < entry < target when LONG, target < entry < stop_loss
\* when SHORT.
C29_LevelsStrictlyOrdered ==
    (Planned /\ sc_analysis.price > 0) =>
        /\ sc_plan.direction = "LONG" =>
              sc_plan.stop_loss < sc_plan.entry /\ sc_plan.entry < sc_plan.target
        /\ sc_plan.direction = "SHORT" =>
              sc_plan.target < sc_plan.entry /\ sc_plan.entry < sc_plan.stop_loss

----------------------------------------------------------------------------
(* Further properties of scan_best_opportunities (specification Spec) *)

\* C25: every analysis of a scan result carries a trade plan whose confidence
\* is VERY HIGH or HIGH; a MODERATE plan (position "5-7%") is never returned.
C25_ReturnedPlansConfident ==
    \A k \in 1..Len(returned) :
        /\ "trade_plan" \in DOMAIN returned[k]
        /\ returned[k].trade_plan.confidence \in {"VERY HIGH", "HIGH"}
        /\ returned[k].trade_plan.position_size \in {"10-15%", "7-10%"}

\* a scan returned an analysis that scores exactly 75, with a HIGH plan,
\* after a fetch answered a frame that scores below 75
C25_Witness ==
    /\ Done
    /\ \E k \in 1..Len(returned) :
          /\ returned[k].score = Rat(InclusionThreshold, 1)
          /\ returned[k].trade_plan.confidence = "HIGH"
    /\ \E k \in 1..Len(responses) : responses[k].data = NearMissFrame

----------------------------------------------------------------------------
(* Independence of scans (specification SpecTwin) *)

\* C26: each of two scans on the same scanner, interleaved or one after the
\* other, returns what a scan run alone returns for the responses it was
\* given; a scan finds no state left by another one.
C26_ScansIndependent ==
    \A s \in ScanIds :
        /\ scans[s].pc = "loop" =>
              scans[s].results = ReplayLoop(scans[s].responses)
        /\ scans[s].pc = "done" =>
              scans[s].returned =
                  ScanOf(scans[s].responses, scans[s].max_results)

\* one scan has returned a result while the other, started before the first
\* one ended, holds a different list
C26_Witness ==
    /\ scans[1].pc = "done" /\ scans[1].returned /= <<>>
    /\ scans[2].pc = "loop" /\ scans[2].i = 2 /\ scans[2].results /= <<>>
    /\ scans[2].results /= scans[1].returned

----------------------------------------------------------------------------
(* The session of the AuthManager (specification SpecAuth) *)

\* C30: after any sequence of authenticate_user and logout calls the session
\* is authenticated exactly when its user and its token are both set; logout
\* clears the three fields, and a failed authenticate_user (unknown
\* identifier or wrong password) leaves the three fields unchanged.
C30_SessionConsistent ==
    /\ [](ss_authenticated <=> (ss_user /= "None" /\ ss_token /= 0))
    /\ [][/\ auth_result' = "logout" =>
                (ss_user' = "None" /\ ~ss_authenticated' /\ ss_token' = 0)
          /\ auth_result' \in {"User not found", "Invalid password"} =>
                UNCHANGED <<ss_user, ss_authenticated, ss_token>>]_vars

\* a wrong password was refused while another user's session was open
C30_Witness ==
    /\ auth_result = "Invalid password"
    /\ ss_authenticated /\ ss_user = "bob" /\ ss_token > 1
    /\ last_login["alice"] > 0

====
